---- MODULE Spec2Model ----
(***************************************************************************)
(* Model of the rm-guard PreToolUse hook (src/hooks/validate-rm.py).       *)
(*                                                                         *)
(* Command lines, tokens and paths are TLA+ strings handled character by   *)
(* character, so that tokenizing, quoting, path normalisation and prefix   *)
(* containment are computed the way the code computes them.                *)
(***************************************************************************)
EXTENDS Integers, Sequences, FiniteSets, TLC

VARIABLES
  command,    \* tool_input.command of the request being composed / checked
  cwd,        \* cwd of the request
  tool_name,  \* tool_name of the request
  json_ok,    \* whether stdin holds well-formed JSON
  shape,      \* the JSON types of the request and of its fields
  pc,         \* "compose": the host is writing the request; "exited": the hook has run
  exit_code,  \* the hook's exit status (-1 before it has run)
  stderr,     \* what the hook printed on stderr
  pieces,     \* how many pieces the command was composed of
  slot,       \* "head" when the next word typed starts a simple command, else "args"
  settings,   \* the content of ~/.claude/settings.json ({} when there is no file)
  initial,    \* the content of settings.json before the installer first ran
  hook_file,  \* whether ~/.claude/hooks/validate-rm.py exists
  last_run,   \* the installer's last run: "install", "uninstall", "failed", or "none"
  add_perms,  \* the answer the last install got to its question about ask permissions
  saved       \* whether the installer's last run wrote settings.json

(* The state of a hook invocation, and the state the installer works on. *)
request == <<command, cwd, tool_name, json_ok, shape, pc, exit_code, stderr, pieces, slot>>

installer == <<settings, initial, hook_file, last_run, add_perms, saved>>

vars == <<request, installer>>

(***************************************************************************)
(* Small string helpers (Python str methods used by the code).             *)
(***************************************************************************)
CharAt(s, i) == SubSeq(s, i, i)

startswith(s, p) == Len(p) <= Len(s) /\ SubSeq(s, 1, Len(p)) = p

Contains(s, c) == \E i \in 1..Len(s) : CharAt(s, i) = c

HasSubstring(s, p) == \E i \in 1..(Len(s) + 1) : i + Len(p) - 1 <= Len(s) /\ SubSeq(s, i, i + Len(p) - 1) = p

LowerLetters == {"a","b","c","d","e","f","g","h","i","j","k","l","m","n","o","p","q","r","s","t","u","v","w","x","y","z"}

UpperLetters == {"A","B","C","D","E","F","G","H","I","J","K","L","M","N","O","P","Q","R","S","T","U","V","W","X","Y","Z"}

Digits == {"0","1","2","3","4","5","6","7","8","9"}

(***************************************************************************)
(* shlex.shlex(command, posix=True, punctuation_chars=True) with           *)
(* whitespace_split = False: the lexer's character classes.                *)
(***************************************************************************)
Whitespace == {" ", "\t", "\r", "\n"}

Commenters == {"#"}

PunctuationChars == {"(", ")", ";", "<", ">", "|", "&"}

WordChars == LowerLetters \cup UpperLetters \cup Digits \cup {"_", "~", "-", ".", "/", "*", "?", "="}

Quotes == {"'", "\""}

Escape == {"\\"}

EscapedQuotes == {"\""}

(***************************************************************************)
(* list(lexer).  A lexer state is a record: st is shlex's state (" ", "a", *)
(* "c", a quote or the escape character; "#" while readline() skips a      *)
(* comment; PastEOF for None), tok the token being built, quoted and esc   *)
(* read_token's locals quoted and escapedstate, out the tokens returned so *)
(* far.  The end of the input is the character "".                         *)
(***************************************************************************)
Malformed == [ok |-> FALSE, toks |-> <<>>]

PastEOF == "EOF"

Raised == "ValueError"

LexStart == [st |-> " ", tok |-> "", quoted |-> FALSE, esc |-> " ", out |-> <<>>]

(* read_token returns: the token is kept unless it is empty and unquoted. *)
Emit(x, st) ==
  [st |-> st, tok |-> "", quoted |-> FALSE, esc |-> " ",
   out |-> IF x.tok # "" \/ x.quoted THEN Append(x.out, x.tok) ELSE x.out]

(* read_token on character c in state " ". *)
StepBlank(x, c) ==
  IF c \in Whitespace THEN x
  ELSE IF c \in Commenters THEN [x EXCEPT !.st = "#"]
  ELSE IF c \in Escape THEN [x EXCEPT !.st = c, !.esc = "a"]
  ELSE IF c \in WordChars THEN [x EXCEPT !.st = "a", !.tok = c]
  ELSE IF c \in PunctuationChars THEN [x EXCEPT !.st = "c", !.tok = c]
  ELSE IF c \in Quotes THEN [x EXCEPT !.st = c]
  ELSE [x EXCEPT !.out = Append(@, c)]

(* read_token on character c.  A character pushed back at the end of a token
   is read again in state " ". *)
Step(x, c) ==
  IF x.st \in {PastEOF, Raised} THEN x
  ELSE IF c = "" THEN
    IF x.st \in Quotes \/ x.st \in Escape THEN [x EXCEPT !.st = Raised]
    ELSE Emit(x, PastEOF)
  ELSE IF x.st = "#" THEN (IF c = "\n" THEN [x EXCEPT !.st = " "] ELSE x)
  ELSE IF x.st = " " THEN StepBlank(x, c)
  ELSE IF x.st \in Quotes THEN
    IF c = x.st THEN [x EXCEPT !.st = "a", !.quoted = TRUE]
    ELSE IF c \in Escape /\ x.st \in EscapedQuotes THEN [x EXCEPT !.st = c, !.esc = x.st, !.quoted = TRUE]
    ELSE [x EXCEPT !.tok = @ \o c, !.quoted = TRUE]
  ELSE IF x.st \in Escape THEN
    IF x.esc \in Quotes /\ c # x.st /\ c # x.esc
      THEN [x EXCEPT !.tok = (@ \o x.st) \o c, !.st = x.esc]
      ELSE [x EXCEPT !.tok = @ \o c, !.st = x.esc]
  ELSE \* x.st \in {"a", "c"}
    IF c \in Whitespace THEN Emit(x, " ")
    ELSE IF c \in Commenters THEN Emit(x, "#")
    ELSE IF x.st = "c" THEN
      IF c \in PunctuationChars THEN [x EXCEPT !.tok = @ \o c]
      ELSE StepBlank(Emit(x, " "), c)
    ELSE IF c \in Quotes THEN [x EXCEPT !.st = c]
    ELSE IF c \in Escape THEN [x EXCEPT !.st = c, !.esc = "a"]
    ELSE IF c \in WordChars THEN [x EXCEPT !.tok = @ \o c]
    ELSE StepBlank(Emit(x, " "), c)

(* The lexer state after the characters lo..hi of s, read from state x; the
   character after the last one is the end of the input. *)
RECURSIVE Run(_, _, _, _)
Run(s, lo, hi, x) ==
  IF lo > hi THEN x
  ELSE IF lo = hi THEN Step(x, IF lo > Len(s) THEN "" ELSE CharAt(s, lo))
  ELSE LET mid == (lo + hi) \div 2
           left == Run(s, lo, mid, x)
       IN IF left.st \in {PastEOF, Raised} THEN left ELSE Run(s, mid + 1, hi, left)

shlex_tokens(s) ==
  LET end == Run(s, 1, Len(s) + 1, LexStart) IN
  IF end.st = Raised THEN Malformed ELSE [ok |-> TRUE, toks |-> end.out]

(***************************************************************************)
(* parse_command_tokens: the simple commands of a line, or Malformed.      *)
(***************************************************************************)
Separators == {";", "|", "||", "&&", "&", "\n"}

Redirections == {">", ">>", "<", "2>", "2>>", "&>", "&>>"}

(* The while loop of parse_command_tokens from index i on: cur is
   current_command, cmds is commands. *)
RECURSIVE SplitCommands(_, _, _, _)
SplitCommands(tokens, i, cur, cmds) ==
  IF i > Len(tokens) THEN (IF cur # <<>> THEN Append(cmds, cur) ELSE cmds)
  ELSE LET token == tokens[i] IN
    IF token \in Separators THEN
      IF cur # <<>> THEN SplitCommands(tokens, i + 1, <<>>, Append(cmds, cur))
      ELSE SplitCommands(tokens, i + 1, cur, cmds)
    ELSE IF token \in Redirections THEN
      IF i + 1 <= Len(tokens)
        THEN SplitCommands(tokens, i + 2, Append(Append(cur, token), tokens[i + 1]), cmds)
        ELSE SplitCommands(tokens, i + 1, Append(cur, token), cmds)
    ELSE SplitCommands(tokens, i + 1, Append(cur, token), cmds)

parse_command_tokens(s) ==
  LET lexed == shlex_tokens(s) IN
  IF ~lexed.ok THEN Malformed
  ELSE [ok |-> TRUE, toks |-> SplitCommands(lexed.toks, 1, <<>>, <<>>)]

(***************************************************************************)
(* The filesystem the hook probes (os.path.exists, os.path.realpath,       *)
(* os.path.isdir): a fixed tree with the project directory /p, a sibling   *)
(* /pp sharing its name as a prefix, an outside directory /o, a symlink    *)
(* /p/l to /o, a dangling symlink /p/d and a symlink /s to the project.    *)
(***************************************************************************)
Dirs == {"/", "/p", "/pp", "/o", "/p/k"}

Files == {"/p/f", "/o/f", "/f"}

Links == {"/p/l", "/p/d", "/s"}

LinkTarget(l) == IF l = "/p/l" THEN "/o" ELSE IF l = "/p/d" THEN "/o/m" ELSE "/p"

HOME == "/o"

(* Index of the first "/" of path at or after i, Len(path) + 1 if none. *)
NextSlash(path, i) ==
  LET S == {k \in i..Len(path) : CharAt(path, k) = "/"} IN
  IF S = {} THEN Len(path) + 1 ELSE CHOOSE k \in S : \A j \in S : k <= j

(* The components of a path from index i on: path.split('/') without the
   empty ones. *)
RECURSIVE SplitPath(_, _)
SplitPath(path, i) ==
  IF i > Len(path) THEN <<>>
  ELSE LET j == NextSlash(path, i) IN
    IF j = i THEN SplitPath(path, j + 1)
    ELSE <<SubSeq(path, i, j - 1)>> \o SplitPath(path, j + 1)

Components(path) == SplitPath(path, 1)

RECURSIVE JoinPath(_)
JoinPath(comps) ==
  IF comps = <<>> THEN ""
  ELSE IF Len(comps) = 1 THEN comps[1]
  ELSE (comps[1] \o "/") \o JoinPath(Tail(comps))

ChildOf(dir, name) == IF dir = "/" THEN "/" \o name ELSE (dir \o "/") \o name

(* os.path.realpath (non-strict) of the path made of directory cur, already
   resolved, followed by the components comps. *)
RECURSIVE Walk(_, _)
Walk(cur, comps) ==
  IF comps = <<>> THEN cur
  ELSE LET comp == Head(comps)
           next == IF comp = "." THEN cur
                   ELSE IF comp = ".." THEN
                     (IF Components(cur) = <<>> THEN "/"
                      ELSE "/" \o JoinPath(SubSeq(Components(cur), 1, Len(Components(cur)) - 1)))
                   ELSE ChildOf(cur, comp)
       IN IF next \in Links
            THEN Walk(Walk("/", Components(LinkTarget(next))), Tail(comps))
            ELSE Walk(next, Tail(comps))

realpath(path) == Walk("/", Components(path))

(* os.stat of the path made of the node cur followed by the components comps:
   the node reached, following symlinks, or "" when there is none (ENOENT,
   ENOTDIR). *)
RECURSIVE Stat(_, _)
Stat(cur, comps) ==
  IF cur \notin (Dirs \cup Files) THEN ""
  ELSE IF comps = <<>> THEN cur
  ELSE IF cur \notin Dirs THEN ""
  ELSE LET comp == Head(comps)
           next == IF comp = "." THEN cur
                   ELSE IF comp = ".." THEN
                     (IF Components(cur) = <<>> THEN "/"
                      ELSE "/" \o JoinPath(SubSeq(Components(cur), 1, Len(Components(cur)) - 1)))
                   ELSE ChildOf(cur, comp)
       IN IF next \in Links
            THEN Stat(Stat("/", Components(LinkTarget(next))), Tail(comps))
            ELSE Stat(next, Tail(comps))

(* A trailing slash asks for a directory, like a trailing "." component. *)
StatPath(path) ==
  Stat("/", Components(path) \o (IF path # "" /\ CharAt(path, Len(path)) = "/" THEN <<".">> ELSE <<>>))

(* os.path.exists and os.path.isdir follow symlinks. *)
exists(path) == StatPath(path) # ""

isdir(path) == StatPath(path) \in Dirs

(***************************************************************************)
(* os.path helpers.                                                        *)
(***************************************************************************)
isabs(path) == startswith(path, "/")

join(a, b) ==
  IF isabs(b) THEN b
  ELSE IF a = "" \/ CharAt(a, Len(a)) = "/" THEN a \o b
  ELSE (a \o "/") \o b

(* path.rfind('/') + 1 *)
LastSlash(path) ==
  LET S == {k \in 1..Len(path) : CharAt(path, k) = "/"} IN
  IF S = {} THEN 0 ELSE CHOOSE k \in S : \A j \in S : j <= k

basename(path) == SubSeq(path, LastSlash(path) + 1, Len(path))

(* The for loop of posixpath.normpath over the components. *)
RECURSIVE NormComps(_, _, _)
NormComps(comps, new, initial_slashes) ==
  IF comps = <<>> THEN new
  ELSE LET comp == Head(comps) IN
    IF comp = "." THEN NormComps(Tail(comps), new, initial_slashes)
    ELSE IF comp # ".." \/ (initial_slashes = 0 /\ new = <<>>) \/ (new # <<>> /\ new[Len(new)] = "..")
      THEN NormComps(Tail(comps), Append(new, comp), initial_slashes)
    ELSE IF new # <<>> THEN NormComps(Tail(comps), SubSeq(new, 1, Len(new) - 1), initial_slashes)
    ELSE NormComps(Tail(comps), new, initial_slashes)

normpath(path) ==
  IF path = "" THEN "."
  ELSE LET initial_slashes == IF ~startswith(path, "/") THEN 0
                              ELSE IF startswith(path, "//") /\ ~startswith(path, "///") THEN 2
                              ELSE 1
           body == JoinPath(NormComps(Components(path), <<>>, initial_slashes))
           res == (IF initial_slashes = 2 THEN "//" ELSE IF initial_slashes = 1 THEN "/" ELSE "") \o body
       IN IF res = "" THEN "." ELSE res

(***************************************************************************)
(* The command sets.                                                       *)
(***************************************************************************)
DANGEROUS_COMMANDS == {"rm", "unlink", "rmdir", "shred", "/bin/rm", "/usr/bin/rm", "/bin/unlink", "/usr/bin/unlink"}

COMMAND_EXECUTORS == {"xargs", "parallel", "find", "sudo", "doas", "env", "nice", "nohup", "time", "timeout", "watch", "sh", "bash", "zsh", "dash", "fish"}

Wrappers == {"sudo", "doas", "env", "nice", "nohup", "time", "timeout"}

Shells == {"sh", "bash", "zsh", "dash", "fish"}

(***************************************************************************)
(* UNRESOLVABLE_PATTERNS: re.search of each pattern in the path.           *)
(***************************************************************************)
IdentStart == LowerLetters \cup UpperLetters \cup {"_"}

\* The backquote character of command substitution.  A TLA+ string cannot
\* hold that character, so the model writes it "^": like the backquote, "^"
\* is in none of the lexer's character classes and in no other pattern.
Backquote == "^"

\* The backquote pattern: two backquotes with at least one character, none
\* of them a backquote, between them.
MatchesBackquotes(path) ==
  \E i \in 1..Len(path) : \E j \in (i + 2)..Len(path) :
    /\ CharAt(path, i) = Backquote
    /\ CharAt(path, j) = Backquote
    /\ \A k \in (i + 1)..(j - 1) : CharAt(path, k) # Backquote

\* The bracket pattern: an opening bracket and a later closing bracket with
\* no newline between them.
MatchesBracket(path) ==
  \E i \in 1..Len(path) : \E j \in (i + 1)..Len(path) :
    /\ CharAt(path, i) = "["
    /\ CharAt(path, j) = "]"
    /\ \A k \in (i + 1)..(j - 1) : CharAt(path, k) # "\n"

MatchesDollarName(path) ==
  \E i \in 1..(Len(path) - 1) : CharAt(path, i) = "$" /\ CharAt(path, i + 1) \in IdentStart

UNRESOLVABLE_PATTERNS(path) ==
  \/ HasSubstring(path, "${")
  \/ HasSubstring(path, "$(")
  \/ MatchesBackquotes(path)
  \/ MatchesDollarName(path)
  \/ Contains(path, "*")
  \/ Contains(path, "?")
  \/ MatchesBracket(path)

(***************************************************************************)
(* resolve_path: Optional[str] is a sequence, <<>> for None and <<p>> for  *)
(* the path p.                                                             *)
(***************************************************************************)
None == <<>>

resolve_path(path, dir, home) ==
  IF UNRESOLVABLE_PATTERNS(path) THEN None
  ELSE IF startswith(path, "~") /\ ~(path = "~" \/ startswith(path, "~/")) THEN None
  ELSE LET expanded == IF startswith(path, "~") THEN home \o SubSeq(path, 2, Len(path)) ELSE path
           absolute == IF ~isabs(expanded) THEN join(dir, expanded) ELSE expanded
           normal == normpath(absolute)
       IN <<IF exists(normal) THEN realpath(normal) ELSE normal>>

is_path_within_directory(path, directory) ==
  LET p == normpath(path)
      d == normpath(directory)
  IN IF p = d THEN TRUE ELSE startswith(p, d \o "/")

(***************************************************************************)
(* extract_rm_targets: (resolved_paths, unresolvable_reasons) of one       *)
(* simple command.                                                         *)
(***************************************************************************)
NoTargets == [paths |-> <<>>, reasons |-> <<>>]

(* The wrapper loop: the index (from 1) where the wrapped command starts. *)
RECURSIVE SubStart(_, _, _)
SubStart(tokens, cmd, k) ==
  IF k > Len(tokens) THEN k
  ELSE IF startswith(tokens[k], "-") THEN
    IF cmd = "sudo" /\ tokens[k] \in {"-u", "-g", "-C"} THEN SubStart(tokens, cmd, k + 2)
    ELSE IF cmd = "timeout" /\ k = 2 THEN SubStart(tokens, cmd, k + 1)
    ELSE SubStart(tokens, cmd, k + 1)
  ELSE IF Contains(tokens[k], "=") /\ cmd = "env" THEN SubStart(tokens, cmd, k + 1)
  ELSE k

(* The xargs loop: the index of the first token that does not start with "-". *)
RECURSIVE XargsSubStart(_, _)
XargsSubStart(tokens, k) ==
  IF k <= Len(tokens) /\ startswith(tokens[k], "-") THEN XargsSubStart(tokens, k + 1) ELSE k

(* The option loop of a deletion command: the index of the first path. *)
RECURSIVE FirstPath(_, _)
FirstPath(tokens, i) ==
  IF i > Len(tokens) THEN i
  ELSE LET token == tokens[i] IN
    IF token = "--" THEN i + 1
    ELSE IF startswith(token, "--") THEN FirstPath(tokens, i + 1)
    ELSE IF startswith(token, "-") /\ Len(token) > 1 /\ CharAt(token, 2) # "-" THEN FirstPath(tokens, i + 1)
    ELSE i

(* The for loop over the path arguments tokens[i..]. *)
RECURSIVE ResolveAll(_, _, _, _, _)
ResolveAll(tokens, i, dir, home, acc) ==
  IF i > Len(tokens) THEN acc
  ELSE LET resolved == resolve_path(tokens[i], dir, home) IN
    IF resolved = None
      THEN ResolveAll(tokens, i + 1, dir, home, [acc EXCEPT !.reasons = Append(@, "Unresolvable path: " \o tokens[i])])
      ELSE ResolveAll(tokens, i + 1, dir, home, [acc EXCEPT !.paths = Append(@, resolved[1])])

IsDeletion(name) == name \in DANGEROUS_COMMANDS \/ name = "rm"

ExecFlags == {"-exec", "-execdir", "-ok", "-okdir"}

(* The find loop from index i on. *)
RECURSIVE FindReasons(_, _, _)
FindReasons(tokens, i, acc) ==
  IF i > Len(tokens) THEN acc
  ELSE IF tokens[i] \in ExecFlags /\ i + 1 <= Len(tokens) /\ IsDeletion(basename(tokens[i + 1]))
    THEN FindReasons(tokens, i + 1, Append(acc, ("find " \o tokens[i]) \o " with rm - paths are dynamic"))
    ELSE FindReasons(tokens, i + 1, acc)

(* Index of the first "-c" that has a token after it, 0 when there is none. *)
RECURSIVE DashC(_, _)
DashC(tokens, i) ==
  IF i + 1 > Len(tokens) THEN 0
  ELSE IF tokens[i] = "-c" THEN i
  ELSE DashC(tokens, i + 1)

(* resolved_paths.extend(paths); unresolvable_reasons.extend(reasons) *)
Extend(acc, r) == [paths |-> acc.paths \o r.paths, reasons |-> acc.reasons \o r.reasons]

RECURSIVE extract_rm_targets(_, _, _)
RECURSIVE ExtractEach(_, _, _, _, _)
(* A variant of the loop that stops after the first nested command. *)
ExtractFirstOnly(cmds, i, dir, home, acc) ==
  IF cmds = <<>> THEN acc ELSE extract_rm_targets(cmds[1], dir, home)

(* The loop over nested_commands of a shell -c payload. *)
ExtractEach(cmds, i, dir, home, acc) ==
  IF i > Len(cmds) THEN acc
  ELSE ExtractEach(cmds, i + 1, dir, home, Extend(acc, extract_rm_targets(cmds[i], dir, home)))

extract_rm_targets(tokens, dir, home) ==
  IF tokens = <<>> THEN NoTargets
  ELSE LET cmd == basename(tokens[1]) IN
    IF cmd \in Wrappers THEN
      LET sub_start == SubStart(tokens, cmd, 2) IN
      IF sub_start <= Len(tokens)
        THEN extract_rm_targets(SubSeq(tokens, sub_start, Len(tokens)), dir, home)
        ELSE NoTargets
    ELSE IF cmd \in Shells THEN
      LET i == DashC(tokens, 2) IN
      IF i = 0 THEN NoTargets
      ELSE LET nested_commands == parse_command_tokens(tokens[i + 1]) IN
        IF ~nested_commands.ok
          THEN [paths |-> <<>>, reasons |-> <<("Malformed nested command in " \o cmd) \o " -c">>]
          ELSE ExtractEach(nested_commands.toks, 1, dir, home, NoTargets)
    ELSE IF cmd = "xargs" THEN
      LET sub_start == XargsSubStart(tokens, 2) IN
      IF sub_start <= Len(tokens) /\ IsDeletion(basename(tokens[sub_start]))
        THEN [paths |-> <<>>, reasons |-> <<"xargs with rm - paths come from stdin">>]
        ELSE NoTargets
    ELSE IF cmd = "find" THEN [paths |-> <<>>, reasons |-> FindReasons(tokens, 1, <<>>)]
    ELSE IF ~IsDeletion(cmd) THEN NoTargets
    ELSE ResolveAll(tokens, FirstPath(tokens, 2), dir, home, NoTargets)

(***************************************************************************)
(* check_command: None when allowed, <<message>> when blocked.             *)
(***************************************************************************)
(* The loop over the simple commands: all_resolved_paths, all_unresolvable. *)
RECURSIVE Accumulate(_, _, _, _, _)
Accumulate(cmds, i, dir, home, acc) ==
  IF i > Len(cmds) THEN acc
  ELSE LET cmd_tokens == cmds[i]
           base_cmd == basename(cmd_tokens[1])
       IN IF base_cmd \in DANGEROUS_COMMANDS \/ base_cmd \in COMMAND_EXECUTORS
            THEN Accumulate(cmds, i + 1, dir, home, Extend(acc, extract_rm_targets(cmd_tokens, dir, home)))
            ELSE Accumulate(cmds, i + 1, dir, home, acc)

(* '\n  - '.join(reasons) *)
RECURSIVE JoinReasons(_)
JoinReasons(reasons) ==
  IF reasons = <<>> THEN ""
  ELSE IF Len(reasons) = 1 THEN reasons[1]
  ELSE (reasons[1] \o "\n  - ") \o JoinReasons(Tail(reasons))

(* The loop over all_resolved_paths: the first path outside abs_cwd, if any. *)
RECURSIVE FirstOutside(_, _, _)
FirstOutside(paths, i, abs_cwd) ==
  IF i > Len(paths) THEN None
  ELSE IF ~is_path_within_directory(paths[i], abs_cwd) THEN <<paths[i]>>
  ELSE FirstOutside(paths, i + 1, abs_cwd)

MalformedMessage(cmdline) ==
  "BLOCKED: Malformed command (unclosed quotes or syntax error)\n  Command: " \o cmdline

UnresolvableMessage(reasons, cmdline, abs_cwd) ==
  ((((("BLOCKED: Command contains rm with unresolvable paths (safety block)\n  Reasons:\n  - "
       \o JoinReasons(reasons)) \o "\n  Command: ") \o cmdline) \o "\n  Working directory: ") \o abs_cwd)

(* A variant of the outside-path message without the command line. *)
OutsideMessageNoCommand(path, cmdline, abs_cwd) ==
  ((("BLOCKED: rm targets path outside working directory\n  Target: " \o path)
       \o "\n  Working directory: ") \o abs_cwd)

OutsideMessage(path, cmdline, abs_cwd) ==
  ((((("BLOCKED: rm targets path outside working directory\n  Target: " \o path)
       \o "\n  Working directory: ") \o abs_cwd) \o "\n  Command: ") \o cmdline)

Analyse(cmds, dir, home) == Accumulate(cmds, 1, dir, home, NoTargets)

(* The loop's outcome: the outside-path message, or None. *)
OutsideVerdict(outside, cmdline, abs_cwd) ==
  IF outside # None THEN <<OutsideMessage(outside[1], cmdline, abs_cwd)>> ELSE None

(* A variant that tests the resolved paths before the unresolvable reasons. *)
VerdictPathsFirst(all, cmdline, abs_cwd) ==
  IF FirstOutside(all.paths, 1, abs_cwd) # None
    THEN <<OutsideMessage(FirstOutside(all.paths, 1, abs_cwd)[1], cmdline, abs_cwd)>>
  ELSE IF all.reasons # <<>> THEN <<UnresolvableMessage(all.reasons, cmdline, abs_cwd)>>
  ELSE None

(* The verdict on the accumulated results: reasons first, then paths. *)
Verdict(all, cmdline, abs_cwd) ==
  IF all.reasons # <<>> THEN <<UnresolvableMessage(all.reasons, cmdline, abs_cwd)>>
  ELSE OutsideVerdict(FirstOutside(all.paths, 1, abs_cwd), cmdline, abs_cwd)

(* check_command once the line is parsed into commands. *)
CheckParsed(commands, cmdline, dir, home, abs_cwd) ==
  IF ~commands.ok THEN <<MalformedMessage(cmdline)>>
  ELSE Verdict(Analyse(commands.toks, dir, home), cmdline, abs_cwd)

check_command(cmdline, dir, home, abs_cwd) ==
  CheckParsed(parse_command_tokens(cmdline), cmdline, dir, home, abs_cwd)

(***************************************************************************)
(* main: the hook on one request.  The result is the exit status and the   *)
(* text printed on stderr.                                                 *)
(***************************************************************************)
IsWordChar(c) == c \in LowerLetters \cup UpperLetters \cup Digits \cup {"_"}

(* \b at the position before character k of s. *)
Boundary(s, k) ==
  LET before == k - 1 >= 1 /\ IsWordChar(CharAt(s, k - 1))
      after == k <= Len(s) /\ IsWordChar(CharAt(s, k))
  IN before # after

(* re.search(rf'\b{re.escape(cmd)}\b', s) *)
WordSearch(cmd, s) ==
  \E i \in 1..Len(s) :
    /\ i + Len(cmd) - 1 <= Len(s)
    /\ SubSeq(s, i, i + Len(cmd) - 1) = cmd
    /\ Boundary(s, i)
    /\ Boundary(s, i + Len(cmd))

has_dangerous(cmdline) ==
  \/ \E cmd \in DANGEROUS_COMMANDS : WordSearch(cmd, cmdline)
  \/ \E cmd \in COMMAND_EXECUTORS : WordSearch(cmd, cmdline)

Allow == [code |-> 0, err |-> ""]

Block(message) == [code |-> 2, err |-> message]

(* block(error) if error, else allow(). *)
Exit(error) == IF error # None THEN Block(error[1]) ELSE Allow

(* An exception nothing catches: the interpreter prints the traceback and
   exits with status 1. *)
Uncaught(exception) == [code |-> 1, err |-> exception]

(* The JSON types of a request whose fields all have the expected type. *)
WellTyped == [input_data |-> "object", tool_input |-> "object", command |-> "string", cwd |-> "string"]

(* `not value`: a string is false when empty, null is false; the numbers,
   arrays and objects of the requests are non-zero and non-empty. *)
Not(type, text) == IF type = "string" THEN text = "" ELSE type = "null"

(* str(value) inside the f-string. *)
Str(type, text) == IF type = "string" THEN text ELSE IF type = "null" THEN "None" ELSE "[]"

main(input) ==
  IF ~input.json_ok THEN Block("ERROR: Invalid JSON input")
  ELSE IF input.shape.input_data # "object" THEN Uncaught("AttributeError")
  ELSE IF input.shape.tool_input # "object" THEN Uncaught("AttributeError")
  ELSE IF input.tool_name # "Bash" THEN Allow
  ELSE IF Not(input.shape.command, input.command) THEN Allow
  ELSE IF Not(input.shape.cwd, input.cwd) THEN Block("ERROR: Invalid or missing working directory: " \o Str(input.shape.cwd, input.cwd))
  ELSE IF input.shape.cwd # "string" THEN Uncaught("TypeError")
  ELSE IF ~isdir(input.cwd) THEN Block("ERROR: Invalid or missing working directory: " \o input.cwd)
  ELSE IF input.shape.command # "string" THEN Uncaught("TypeError")
  ELSE IF ~has_dangerous(input.command) THEN Allow
  ELSE Exit(check_command(input.command, input.cwd, HOME, realpath(input.cwd)))

(***************************************************************************)
(* The host agent.  It composes a command line piece by piece: at the head *)
(* of a simple command a wrapper or a command name, after it arguments or  *)
(* a separator; it may wrap the line written so far into a nested shell    *)
(* invocation; then it sends the request and the hook runs.                *)
(***************************************************************************)
MaxPieces == 4

MaxNestedPieces == 5

Commands == {"rm ", "ls "}

WrapperPieces == {"sudo ", "sudo -u x ", "timeout 10 ", "nice -n 10 ", "env A=b ", "xargs ", "xargs -n 1 "}

SeparatorPieces == {"; ", "| ", "|| ", "&& ", "& ", "\n"}

ArgPieces == {"-rf ", "/o ", "/pp ", "f ", "n ", "* ", "$X ", "'$X' ", "$1 ", "l/../f ", "l ", "d ", "'"}

NestShells == {"bash"}

(* The smaller vocabulary of the specification SpecNested. *)
NestedCommands == {"rm ", "ls "}

NestedSeparators == {"; "}

NestedArgs == {"-rf ", "/o ", "* ", "f ", "'"}

Requests ==
  {[json_ok |-> TRUE, shape |-> WellTyped, tool_name |-> "Bash", cwd |-> d] : d \in {"/p", "/s", "/", "", "/p/f"}}
  \cup {[json_ok |-> TRUE, shape |-> WellTyped, tool_name |-> "Read", cwd |-> "/p"],
        [json_ok |-> FALSE, shape |-> WellTyped, tool_name |-> "", cwd |-> ""]}

(* The requests of the specification SpecNested. *)
NestedRequests == {req \in Requests : req.tool_name = "Bash" /\ req.cwd \in {"/p", "/"}}

(* s inside double quotes: the characters " and \ are escaped. *)
RECURSIVE DQuote(_, _, _)
DQuote(s, lo, hi) ==
  IF lo > hi THEN ""
  ELSE IF lo = hi THEN (IF CharAt(s, lo) \in {"\"", "\\"} THEN "\\" \o CharAt(s, lo) ELSE CharAt(s, lo))
  ELSE LET mid == (lo + hi) \div 2 IN DQuote(s, lo, mid) \o DQuote(s, mid + 1, hi)

NestedIn(sh, s) == ((sh \o " -c \"") \o DQuote(s, 1, Len(s))) \o "\" "

Init ==
  /\ command = ""
  /\ cwd = ""
  /\ tool_name = ""
  /\ json_ok = TRUE
  /\ shape = WellTyped
  /\ pc = "compose"
  /\ exit_code = -1
  /\ stderr = ""
  /\ pieces = 0
  /\ slot = "head"
  /\ settings = <<>>
  /\ initial = <<>>
  /\ hook_file = FALSE
  /\ last_run = "none"
  /\ add_perms = FALSE
  /\ saved = FALSE

(* The host appends piece p; to is the slot after it. *)
Type(p, from, to, max) ==
  /\ pc = "compose"
  /\ pieces < max
  /\ slot = from
  /\ command' = command \o p
  /\ pieces' = pieces + 1
  /\ slot' = to
  /\ UNCHANGED <<cwd, tool_name, json_ok, shape, pc, exit_code, stderr, installer>>

(* The host wraps the line written so far: sh -c "line". *)
Nest(sh, max) ==
  /\ pc = "compose"
  /\ pieces < max
  /\ command # ""
  /\ command' = NestedIn(sh, command)
  /\ pieces' = pieces + 1
  /\ slot' = "args"
  /\ UNCHANGED <<cwd, tool_name, json_ok, shape, pc, exit_code, stderr, installer>>

(* The hook runs on the request (one whole invocation of main). *)
Main(req) ==
  /\ pc = "compose"
  /\ LET r == main([json_ok |-> req.json_ok, shape |-> req.shape, tool_name |-> req.tool_name, command |-> command, cwd |-> req.cwd])
     IN /\ exit_code' = r.code
        /\ stderr' = r.err
  /\ cwd' = req.cwd
  /\ tool_name' = req.tool_name
  /\ json_ok' = req.json_ok
  /\ shape' = req.shape
  /\ pc' = "exited"
  /\ UNCHANGED <<command, pieces, slot, installer>>

(* The host starts the next request: nothing persists between invocations. *)
NextRequest ==
  /\ pc = "exited"
  /\ command' = ""
  /\ cwd' = ""
  /\ tool_name' = ""
  /\ json_ok' = TRUE
  /\ shape' = WellTyped
  /\ pc' = "compose"
  /\ exit_code' = -1
  /\ stderr' = ""
  /\ pieces' = 0
  /\ slot' = "head"
  /\ UNCHANGED installer

TypeWrapper == \E p \in WrapperPieces : Type(p, "head", "head", MaxPieces)

TypeCommand == \E p \in Commands : Type(p, "head", "args", MaxPieces)

TypeArg == \E p \in ArgPieces : Type(p, "args", "args", MaxPieces)

TypeSeparator == \E p \in SeparatorPieces : Type(p, "args", "head", MaxPieces)

NestLine == \E sh \in NestShells : Nest(sh, MaxPieces)

RunHook == \E req \in Requests : Main(req)

Next ==
  \/ TypeWrapper
  \/ TypeCommand
  \/ TypeArg
  \/ TypeSeparator
  \/ NestLine
  \/ RunHook
  \/ NextRequest

Spec == Init /\ [][Next]_vars

(* The same host with the smaller vocabulary and longer lines. *)
NestedTypeCommand == \E p \in NestedCommands : Type(p, "head", "args", MaxNestedPieces)

NestedTypeArg == \E p \in NestedArgs : Type(p, "args", "args", MaxNestedPieces)

NestedTypeSeparator == \E p \in NestedSeparators : Type(p, "args", "head", MaxNestedPieces)

NestedNestLine == \E sh \in NestShells : Nest(sh, MaxNestedPieces)

NestedRunHook == \E req \in NestedRequests : Main(req)

NextNested ==
  \/ NestedTypeCommand
  \/ NestedTypeArg
  \/ NestedTypeSeparator
  \/ NestedNestLine
  \/ NestedRunHook
  \/ NextRequest

SpecNested == Init /\ [][NextNested]_vars

(* The same host writing quoted and escaped words, find and its -exec. *)
MaxQuotingPieces == 4

QuotingWrappers == {"timeout 10 ", "sudo "}

QuotingCommands == {"rm ", "r\"m\" ", "r\\m ", "find ", "ls "}

QuotingArgs == {"/o ", "f ", "* ", "';' ", "\\; ", "-exec rm ", "'"}

QuotingSeparators == {"; "}

QuotingTypeWrapper == \E p \in QuotingWrappers : Type(p, "head", "head", MaxQuotingPieces)

QuotingTypeCommand == \E p \in QuotingCommands : Type(p, "head", "args", MaxQuotingPieces)

QuotingTypeArg == \E p \in QuotingArgs : Type(p, "args", "args", MaxQuotingPieces)

QuotingTypeSeparator == \E p \in QuotingSeparators : Type(p, "args", "head", MaxQuotingPieces)

NextQuoting ==
  \/ QuotingTypeWrapper
  \/ QuotingTypeCommand
  \/ QuotingTypeArg
  \/ QuotingTypeSeparator
  \/ RunHook
  \/ NextRequest

SpecQuoting == Init /\ [][NextQuoting]_vars

(* The same host sending requests of every shape: JSON that is not an
   object, and fields that do not have the expected type. *)
MaxInputPieces == 2

InputCommands == {"rm ", "ls "}

InputArgs == {"/o ", "f "}

InputShapes ==
  [input_data : {"object", "array"}, tool_input : {"object", "string"},
   command : {"string", "number", "null"}, cwd : {"string", "array", "null"}]

InputRequests ==
  {[json_ok |-> TRUE, shape |-> sh, tool_name |-> t, cwd |-> d] :
     sh \in InputShapes, t \in {"Bash", "Read"}, d \in {"/p", "/p/f"}}
  \cup {[json_ok |-> FALSE, shape |-> WellTyped, tool_name |-> "", cwd |-> ""]}

InputTypeCommand == \E p \in InputCommands : Type(p, "head", "args", MaxInputPieces)

InputTypeArg == \E p \in InputArgs : Type(p, "args", "args", MaxInputPieces)

InputRunHook == \E req \in InputRequests : Main(req)

NextInput ==
  \/ InputTypeCommand
  \/ InputTypeArg
  \/ InputRunHook
  \/ NextRequest

SpecInput == Init /\ [][NextInput]_vars

(***************************************************************************)
(* The installer (src/install.py).  A JSON object is a function from its   *)
(* keys, a JSON array a sequence; {} and [] are both <<>>.                 *)
(***************************************************************************)
HOOK_COMMAND == "python3 ~/.claude/hooks/validate-rm.py"

HOOK_CONFIG == [type |-> "command", command |-> HOOK_COMMAND]

ASK_PERMISSIONS == <<"Bash(rm:*)", "Bash(unlink:*)", "Bash(rmdir:*)">>

(* d.get(k, default), d[k] = v, del d[k], list.pop(i), x in list. *)
Get(d, k, default) == IF k \in DOMAIN d THEN d[k] ELSE default

Put(d, k, v) == [x \in DOMAIN d \cup {k} |-> IF x = k THEN v ELSE d[x]]

Del(d, k) == [x \in DOMAIN d \ {k} |-> d[x]]

Pop(list, i) == SubSeq(list, 1, i - 1) \o SubSeq(list, i + 1, Len(list))

In(x, list) == \E i \in 1..Len(list) : list[i] = x

(* if k not in d: d[k] = {} (or []). *)
Ensure(d, k) == IF k \in DOMAIN d THEN d ELSE Put(d, k, <<>>)

(* The index of the first entry with matcher "Bash", 0 when there is none. *)
BashMatcherIndex(pre_tool_use) ==
  LET found == {i \in 1..Len(pre_tool_use) : Get(pre_tool_use[i], "matcher", "") = "Bash"}
  IN IF found = {} THEN 0 ELSE CHOOSE i \in found : \A j \in found : i <= j

(* The index of the first hook with our command, 0 when there is none. *)
HookIndex(hooks) ==
  LET found == {i \in 1..Len(hooks) : Get(hooks[i], "command", "") = HOOK_COMMAND}
  IN IF found = {} THEN 0 ELSE CHOOSE i \in found : \A j \in found : i <= j

(* Lines 222-234: find the Bash matcher or append a new one. *)
WithBashMatcher(pre_tool_use) ==
  IF BashMatcherIndex(pre_tool_use) = 0
  THEN Append(pre_tool_use, [matcher |-> "Bash", hooks |-> <<>>])
  ELSE pre_tool_use

(* Lines 236-238: the matcher at index i gets a hooks array. *)
WithHooksArray(pre_tool_use, i) == [pre_tool_use EXCEPT ![i] = Ensure(@, "hooks")]

(* A variant that appends our hook without looking for it first. *)
AppendHookUnchecked(pre_tool_use, i) ==
  [list |-> [pre_tool_use EXCEPT ![i] = Put(@, "hooks", Append(@.hooks, HOOK_CONFIG))], changed |-> TRUE]

(* Lines 240-250: append our hook to the matcher at index i unless present. *)
AppendHook(pre_tool_use, i) ==
  IF HookIndex(pre_tool_use[i].hooks) # 0
  THEN [list |-> pre_tool_use, changed |-> FALSE]
  ELSE [list |-> [pre_tool_use EXCEPT ![i] = Put(@, "hooks", Append(@.hooks, HOOK_CONFIG))], changed |-> TRUE]

(* settings with settings["hooks"]["PreToolUse"] replaced by r.list. *)
WithPreToolUse(s, r) ==
  [settings |-> Put(s, "hooks", Put(s.hooks, "PreToolUse", r.list)), changed |-> r.changed]

(* Lines 222-250 on settings that have hooks.PreToolUse. *)
AddHookIn(s) ==
  LET pre_tool_use == WithBashMatcher(s.hooks.PreToolUse)
      i == BashMatcherIndex(pre_tool_use)
  IN WithPreToolUse(s, AppendHook(WithHooksArray(pre_tool_use, i), i))

(* Returns the settings after the call and whether the hook was added. *)
add_hook_to_settings(s) ==
  LET with_hooks == Ensure(s, "hooks")
  IN AddHookIn(Put(with_hooks, "hooks", Ensure(with_hooks.hooks, "PreToolUse")))

(* Lines 279-285, one permission of the loop. *)
AddPermission(ask, perm) == IF In(perm, ask) THEN ask ELSE Append(ask, perm)

AddPermissions(ask) ==
  AddPermission(AddPermission(AddPermission(ask, ASK_PERMISSIONS[1]), ASK_PERMISSIONS[2]), ASK_PERMISSIONS[3])

WithAsk(s, ask, was) ==
  [settings |-> Put(s, "permissions", Put(s.permissions, "ask", ask)), changed |-> ask # was]

(* Returns the settings after the call and whether the list "added" is
   non-empty. *)
add_permissions_to_settings(s) ==
  LET with_permissions == Ensure(s, "permissions")
      ask == Get(with_permissions.permissions, "ask", <<>>)
  IN WithAsk(with_permissions, AddPermissions(ask), ask)

(* Lines 408-425: the matcher at index i loses its hook at index k; the
   emptied matcher, the emptied PreToolUse and the emptied hooks go. *)
DropEmptyPreToolUse(s) ==
  IF s.hooks.PreToolUse # <<>> THEN s
  ELSE IF DOMAIN s.hooks = {"PreToolUse"} THEN Del(s, "hooks")
  ELSE Put(s, "hooks", Del(s.hooks, "PreToolUse"))

DropEmptyMatcher(s, i) ==
  IF s.hooks.PreToolUse[i].hooks = <<>>
  THEN DropEmptyPreToolUse(Put(s, "hooks", Put(s.hooks, "PreToolUse", Pop(s.hooks.PreToolUse, i))))
  ELSE s

(* A variant that removes the whole matcher holding our hook. *)
PopMatcher(s, i, k) ==
  DropEmptyPreToolUse(Put(s, "hooks", Put(s.hooks, "PreToolUse", Pop(s.hooks.PreToolUse, i))))

PopHook(s, i, k) ==
  DropEmptyMatcher(Put(s, "hooks", Put(s.hooks, "PreToolUse",
      [s.hooks.PreToolUse EXCEPT ![i] = Put(@, "hooks", Pop(@.hooks, k))])), i)

RemoveHookAt(s, i) ==
  IF HookIndex(Get(s.hooks.PreToolUse[i], "hooks", <<>>)) = 0
  THEN [settings |-> s, changed |-> FALSE]
  ELSE [settings |-> PopHook(s, i, HookIndex(s.hooks.PreToolUse[i].hooks)), changed |-> TRUE]

(* Returns the settings after the call and whether the hook was removed. *)
remove_hook_from_settings(s) ==
  IF "hooks" \notin DOMAIN s THEN [settings |-> s, changed |-> FALSE]
  ELSE IF "PreToolUse" \notin DOMAIN s.hooks THEN [settings |-> s, changed |-> FALSE]
  ELSE IF BashMatcherIndex(s.hooks.PreToolUse) = 0 THEN [settings |-> s, changed |-> FALSE]
  ELSE RemoveHookAt(s, BashMatcherIndex(s.hooks.PreToolUse))

(* list.remove(perm) if perm in list: the first occurrence goes. *)
RemovePermission(ask, perm) ==
  IF In(perm, ask) THEN Pop(ask, CHOOSE i \in 1..Len(ask) : ask[i] = perm /\ \A j \in 1..(i - 1) : ask[j] # perm)
  ELSE ask

RemovePermissions(ask) ==
  RemovePermission(RemovePermission(RemovePermission(ask, ASK_PERMISSIONS[1]), ASK_PERMISSIONS[2]), ASK_PERMISSIONS[3])

DropEmptyAsk(s) ==
  IF s.permissions.ask # <<>> THEN s
  ELSE IF DOMAIN s.permissions = {"ask"} THEN Del(s, "permissions")
  ELSE Put(s, "permissions", Del(s.permissions, "ask"))

WithoutAsk(s, ask, was) ==
  [settings |-> DropEmptyAsk(Put(s, "permissions", Put(s.permissions, "ask", ask))), changed |-> ask # was]

(* Returns the settings after the call and whether the list "removed" is
   non-empty. *)
remove_permissions_from_settings(s) ==
  IF "permissions" \notin DOMAIN s THEN [settings |-> s, changed |-> FALSE]
  ELSE IF "ask" \notin DOMAIN s.permissions THEN [settings |-> s, changed |-> FALSE]
  ELSE WithoutAsk(s, RemovePermissions(s.permissions.ask), s.permissions.ask)

(* Steps 4-6 of install(): what settings.json holds afterwards, and whether
   it was written. *)
Merged(hook, perms) == [settings |-> perms.settings, changed |-> hook.changed \/ perms.changed]

Installed(s, answer) ==
  LET hook == add_hook_to_settings(s)
  IN IF answer THEN Merged(hook, add_permissions_to_settings(hook.settings)) ELSE hook

(* Steps 2-4 of uninstall(). *)
Uninstalled(s) ==
  IF DOMAIN s = {} THEN [settings |-> s, changed |-> FALSE]
  ELSE LET hook == remove_hook_from_settings(s)
       IN Merged(hook, remove_permissions_from_settings(hook.settings))

(* save_settings(settings) if anything changed. *)
Save(r) ==
  /\ settings' = (IF r.changed THEN r.settings ELSE settings)
  /\ saved' = r.changed

(***************************************************************************)
(* The user runs the installer on a settings.json that follows the schema  *)
(* of the host: matcher entries with or without hooks, other hook events,  *)
(* other permission lists.                                                 *)
(***************************************************************************)
MaxEntries == 2

MaxAsk == 2

OtherHook(c) == [type |-> "command", command |-> c]

InitialEntries ==
  { [matcher |-> "Bash"],
    [matcher |-> "Bash", hooks |-> <<>>],
    [matcher |-> "Bash", hooks |-> <<OtherHook("lint")>>],
    [matcher |-> "Bash", hooks |-> <<OtherHook("lint"), HOOK_CONFIG>>],
    [matcher |-> "Write", hooks |-> <<HOOK_CONFIG, OtherHook("fmt")>>],
    [hooks |-> <<OtherHook("log")>>] }

InitialAsk == {"Bash(rm:*)", "Bash(unlink:*)", "Bash(curl:*)"}

SeqsUpTo(S, n) == UNION {[1..k -> S] : k \in 0..n}

InitialHooks ==
  {<<>>, [PostToolUse |-> <<[matcher |-> "Bash", hooks |-> <<HOOK_CONFIG>>]>>]}
  \cup {[PreToolUse |-> pre] : pre \in SeqsUpTo(InitialEntries, MaxEntries)}
  \cup {[PreToolUse |-> pre, PostToolUse |-> <<>>] : pre \in SeqsUpTo(InitialEntries, MaxEntries - 1)}

InitialPermissions ==
  {<<>>, [allow |-> <<"Bash(rm:*)">>]}
  \cup {[ask |-> ask] : ask \in SeqsUpTo(InitialAsk, MaxAsk)}
  \cup {[ask |-> ask, allow |-> <<"Bash(rm:*)">>] : ask \in SeqsUpTo(InitialAsk, MaxAsk - 1)}

InitialSettings ==
  {<<>>}
  \cup {[hooks |-> h] : h \in InitialHooks}
  \cup {[permissions |-> p] : p \in InitialPermissions}
  \cup {[hooks |-> h, permissions |-> p] : h \in InitialHooks, p \in InitialPermissions}

InitInstall ==
  /\ command = ""
  /\ cwd = ""
  /\ tool_name = ""
  /\ json_ok = TRUE
  /\ shape = WellTyped
  /\ pc = "compose"
  /\ exit_code = -1
  /\ stderr = ""
  /\ pieces = 0
  /\ slot = "head"
  /\ settings \in InitialSettings
  /\ initial = settings
  /\ hook_file \in BOOLEAN
  /\ last_run = "none"
  /\ add_perms = FALSE
  /\ saved = FALSE

(* install(): the download succeeds or the hook file is there already; the
   user gives answer to the question about permissions. *)
Install(answer) ==
  /\ hook_file' = TRUE
  /\ add_perms' = answer
  /\ Save(Installed(settings, answer))
  /\ last_run' = "install"
  /\ UNCHANGED <<initial, request>>

(* install() when the download fails: sys.exit(1) before settings are read. *)
InstallFails ==
  /\ ~hook_file
  /\ last_run' = "failed"
  /\ saved' = FALSE
  /\ UNCHANGED <<settings, initial, hook_file, add_perms, request>>

(* uninstall(). *)
Uninstall ==
  /\ Save(Uninstalled(settings))
  /\ hook_file' = FALSE
  /\ last_run' = "uninstall"
  /\ UNCHANGED <<initial, add_perms, request>>

NextInstall ==
  \/ \E answer \in BOOLEAN : Install(answer)
  \/ InstallFails
  \/ Uninstall

SpecInstall == InitInstall /\ [][NextInstall]_vars

(***************************************************************************)
(* Properties.  They speak about the state after the hook has run on a     *)
(* Bash request with a command and a valid working directory.              *)
(***************************************************************************)
Analysed ==
  /\ pc = "exited"
  /\ json_ok
  /\ shape = WellTyped
  /\ tool_name = "Bash"
  /\ command # ""
  /\ cwd # ""
  /\ isdir(cwd)

AbsCwd == realpath(cwd)

Parsed == parse_command_tokens(command)

(* A single simple command headed by a deletion command. *)
DeletionLine ==
  /\ Analysed
  /\ Parsed.ok
  /\ Len(Parsed.toks) = 1
  /\ IsDeletion(basename(Parsed.toks[1][1]))

(* The words of s as a shell without quoting sees them: the maximal runs of
   characters other than blanks, in order. *)
WordStarts(s) == {i \in 1..Len(s) : CharAt(s, i) # " " /\ (i = 1 \/ CharAt(s, i - 1) = " ")}

WordEnd(s, i) == CHOOSE j \in i..Len(s) : (j = Len(s) \/ CharAt(s, j + 1) = " ") /\ \A k \in i..j : CharAt(s, k) # " "

RECURSIVE WordsFrom(_, _)
WordsFrom(s, starts) ==
  IF starts = {} THEN <<>>
  ELSE LET i == CHOOSE k \in starts : \A j \in starts : k <= j IN
       <<SubSeq(s, i, WordEnd(s, i))>> \o WordsFrom(s, starts \ {i})

RawWords(s) == WordsFrom(s, WordStarts(s))

(* p is d or lies below d, component by component. *)
Inside(p, d) ==
  LET pc_ == Components(p)
      dc == Components(d)
  IN Len(dc) <= Len(pc_) /\ SubSeq(pc_, 1, Len(dc)) = dc

(* The tokens a wrapper runs, as the wrapper itself reads its command line:
   options are skipped, with the value of sudo -u/-g/-C and of nice -n, then
   timeout's duration, and env's assignments. *)
RECURSIVE WrappedStart(_, _, _, _)
WrappedStart(tokens, cmd, k, duration) ==
  IF k > Len(tokens) THEN k
  ELSE IF startswith(tokens[k], "-") THEN
    IF (cmd = "sudo" /\ tokens[k] \in {"-u", "-g", "-C"}) \/ (cmd = "nice" /\ tokens[k] = "-n")
      THEN WrappedStart(tokens, cmd, k + 2, duration)
      ELSE WrappedStart(tokens, cmd, k + 1, duration)
  ELSE IF cmd = "env" /\ Contains(tokens[k], "=") THEN WrappedStart(tokens, cmd, k + 1, duration)
  ELSE IF cmd = "timeout" /\ duration THEN WrappedStart(tokens, cmd, k + 1, FALSE)
  ELSE k

Wrapped(tokens) ==
  SubSeq(tokens, WrappedStart(tokens, basename(tokens[1]), 2, TRUE), Len(tokens))

RECURSIVE BehindWrappers(_)
BehindWrappers(tokens) ==
  IF tokens = <<>> THEN tokens
  ELSE IF basename(tokens[1]) \in Wrappers THEN BehindWrappers(Wrapped(tokens))
  ELSE tokens

(* C1: when the analysis of the line yields at least one unresolvable
   reason, check_command blocks with the unresolvable-paths diagnostic and
   that diagnostic lists every reason, whatever the resolved paths are; the
   hook then exits 2 with exactly that diagnostic. *)
C1_FailClosedPrecedence ==
  (Analysed /\ Parsed.ok /\ Analyse(Parsed.toks, cwd, HOME).reasons # <<>>) =>
    LET reasons == Analyse(Parsed.toks, cwd, HOME).reasons
        error == check_command(command, cwd, HOME, AbsCwd)
    IN /\ error # None
       /\ startswith(error[1], "BLOCKED: Command contains rm with unresolvable paths")
       /\ \A i \in 1..Len(reasons) : HasSubstring(error[1], "\n  - " \o reasons[i])
       /\ HasSubstring(error[1], "\n  Command: " \o command)
       /\ (has_dangerous(command) => exit_code = 2 /\ stderr = error[1])

(* C1 witness: a nested line with an unresolvable reason and a resolved
   path outside the working directory was blocked for the reason. *)
C1_Witness ==
  /\ Analysed
  /\ Parsed.ok
  /\ startswith(command, "bash -c ")
  /\ LET all == Analyse(Parsed.toks, cwd, HOME) IN
       /\ all.reasons # <<>>
       /\ \E i \in 1..Len(all.paths) : ~is_path_within_directory(all.paths[i], AbsCwd)
  /\ exit_code = 2
  /\ startswith(stderr, "BLOCKED: Command contains rm with unresolvable paths")

(* C2: in a working directory other than the root, a deletion command,
   direct or behind wrappers, with a path argument that resolves outside
   the working directory is blocked and the diagnostic mentions a resolved
   outside path. *)
C2_OutsidePathBlocked ==
  (Analysed /\ AbsCwd # "/" /\ Parsed.ok) =>
    \A n \in 1..Len(Parsed.toks) :
      LET t == BehindWrappers(Parsed.toks[n])
          out == IF t = <<>> \/ ~IsDeletion(basename(t[1])) THEN {}
                 ELSE {k \in FirstPath(t, 2)..Len(t) :
                         /\ resolve_path(t[k], cwd, HOME) # None
                         /\ ~is_path_within_directory(resolve_path(t[k], cwd, HOME)[1], AbsCwd)}
      IN out # {} =>
           /\ exit_code = 2
           /\ \E k \in out : HasSubstring(stderr, resolve_path(t[k], cwd, HOME)[1])

(* A plain path word: no quoting, expansion or glob syntax. *)
IsPlainPath(a) ==
  a # "" /\ \A i \in 1..Len(a) : CharAt(a, i) \in LowerLetters \cup UpperLetters \cup Digits \cup {"/", ".", "_", "-"}

(* Where the path argument a of a command run in dir really leads. *)
TrueTarget(a, dir) == realpath(join(dir, a))

(* C3: a deletion command all of whose path arguments lead to the working
   directory or below it is allowed, for every valid working directory. *)
C3_InsideAllowed ==
  DeletionLine =>
    LET t == Parsed.toks[1] IN
    (\A k \in FirstPath(t, 2)..Len(t) : IsPlainPath(t[k]) /\ Inside(TrueTarget(t[k], cwd), AbsCwd))
      => exit_code = 0

(* The line is one simple command without separators, comments or escapes,
   whose words are bare or wholly enclosed in single quotes. *)
SimpleLine(s) ==
  /\ \A i \in 1..Len(s) : CharAt(s, i) \notin {";", "|", "&", "\n", "\\", "#", "\"", "<", ">", "(", ")", "\t", "\r"}
  /\ \A i \in WordStarts(s) :
       LET w == SubSeq(s, i, WordEnd(s, i)) IN
       \/ ~Contains(w, "'")
       \/ /\ Len(w) >= 2
          /\ CharAt(w, 1) = "'"
          /\ CharAt(w, Len(w)) = "'"
          /\ ~Contains(SubSeq(w, 2, Len(w) - 1), "'")

Unquoted(w) == IF Len(w) >= 2 /\ CharAt(w, 1) = "'" THEN SubSeq(w, 2, Len(w) - 1) ELSE w

(* The word holds a parameter expansion, a command substitution or a glob
   metacharacter. *)
IsDynamic(a) ==
  \/ \E i \in 1..(Len(a) - 1) :
       /\ CharAt(a, i) = "$"
       /\ CharAt(a, i + 1) \in IdentStart \cup Digits \cup {"{", "(", "?", "!", "@", "#", "*", "$", "-"}
  \/ Contains(a, Backquote)
  \/ Contains(a, "*")
  \/ Contains(a, "?")
  \/ MatchesBracket(a)

(* C4: in a working directory other than the root, a deletion command with
   a path argument holding an expansion, a command substitution or a glob
   metacharacter, quoted or not, is blocked with an unresolvable reason. *)
C4_DynamicPathBlocked ==
  (Analysed /\ AbsCwd # "/" /\ SimpleLine(command)) =>
    LET w == RawWords(command) IN
    (/\ Len(w) >= 2
     /\ IsDeletion(basename(w[1]))
     /\ \E k \in FirstPath(w, 2)..Len(w) : IsDynamic(Unquoted(w[k])))
      => /\ exit_code = 2
         /\ HasSubstring(stderr, "unresolvable paths")
         /\ HasSubstring(stderr, "Unresolvable path: ")

(* Index of the payload of the first -c of a shell invocation, 0 if none. *)
PayloadIndex(t) ==
  LET S == {i \in 2..(Len(t) - 1) : t[i] = "-c"} IN
  IF S = {} THEN 0 ELSE (CHOOSE i \in S : \A j \in S : i <= j) + 1

(* C5: a line the tokenizer rejects (unterminated quoting) is blocked,
   whatever its words, and so is a line with a nested shell whose -c
   payload the tokenizer rejects. *)
C5_MalformedBlocked ==
  /\ (Analysed /\ ~shlex_tokens(command).ok) => exit_code = 2
  /\ (Analysed /\ Parsed.ok) =>
       \A n \in 1..Len(Parsed.toks) :
         LET t == Parsed.toks[n] IN
         (/\ basename(t[1]) \in Shells
          /\ PayloadIndex(t) # 0
          /\ ~shlex_tokens(t[PayloadIndex(t)]).ok) => exit_code = 2

(* The index of the command xargs runs: its options are skipped, those
   that take a value together with the value. *)
RECURSIVE XargsCommand(_, _)
XargsCommand(t, k) ==
  IF k > Len(t) THEN k
  ELSE IF t[k] \in {"-n", "-L", "-P", "-s", "-I", "-E", "-a", "-d"} THEN XargsCommand(t, k + 2)
  ELSE IF startswith(t[k], "-") THEN XargsCommand(t, k + 1)
  ELSE k

(* C6: a simple command headed by xargs whose sub-command, after any xargs
   options, is a deletion command blocks the line with the xargs reason. *)
C6_XargsDeletionBlocked ==
  (Analysed /\ Parsed.ok) =>
    \A n \in 1..Len(Parsed.toks) :
      LET t == Parsed.toks[n]
          k == XargsCommand(t, 2)
      IN (basename(t[1]) = "xargs" /\ k <= Len(t) /\ IsDeletion(basename(t[k]))) =>
           /\ exit_code = 2
           /\ HasSubstring(stderr, "xargs with rm - paths come from stdin")

(* C7: the analysis of a simple command headed by a wrapper equals the
   analysis of the command it wraps. *)
C7_WrapperTransparent ==
  (Analysed /\ Parsed.ok) =>
    \A n \in 1..Len(Parsed.toks) :
      LET t == Parsed.toks[n] IN
      basename(t[1]) \in Wrappers =>
        extract_rm_targets(t, cwd, HOME) = extract_rm_targets(Wrapped(t), cwd, HOME)

(* C8: for a shell invoked with -c S, the paths and reasons contributed
   equal the analysis of S as a command line of its own, and whenever S
   alone is blocked the outer line is blocked. *)
C8_NestedShellEquivalence ==
  (Analysed /\ Parsed.ok) =>
    \A n \in 1..Len(Parsed.toks) :
      LET t == Parsed.toks[n]
          k == PayloadIndex(t)
      IN (basename(t[1]) \in Shells /\ k # 0) =>
           LET alone == parse_command_tokens(t[k]) IN
           /\ alone.ok => extract_rm_targets(t, cwd, HOME) = Analyse(alone.toks, cwd, HOME)
           /\ check_command(t[k], cwd, HOME, AbsCwd) # None =>
                /\ check_command(command, cwd, HOME, AbsCwd) # None
                /\ (has_dangerous(command) => exit_code = 2)

(* C8 witness: bash -c "rm -rf /o " in the project directory was blocked
   with the resolved path /o. *)
C8_Witness ==
  /\ Analysed
  /\ cwd = "/p"
  /\ command = NestedIn("bash", "rm -rf /o ")
  /\ extract_rm_targets(Parsed.toks[1], cwd, HOME) = [paths |-> <<"/o">>, reasons |-> <<>>]
  /\ exit_code = 2
  /\ HasSubstring(stderr, "  Target: /o\n")

(* The characters that delimit simple commands. *)
SeparatorChars == {";", "|", "&", "\n"}

(* s[i..j] is one simple command of the unquoted line s: a maximal stretch
   without separator characters. *)
IsSegment(s, i, j) ==
  /\ i = 1 \/ CharAt(s, i - 1) \in SeparatorChars
  /\ j = Len(s) \/ CharAt(s, j + 1) \in SeparatorChars
  /\ \A k \in i..j : CharAt(s, k) \notin SeparatorChars

(* C9: on a line without quoting, in a working directory other than the
   root, a deletion command with a path outside the working directory
   blocks the line wherever it stands among the simple commands delimited
   by ; | || && & or a newline. *)
C9_EverySimpleCommandAnalysed ==
  (Analysed /\ AbsCwd # "/" /\ \A i \in 1..Len(command) : CharAt(command, i) \notin {"'", "\"", "\\", "#", "$"}) =>
    \A i \in 1..Len(command) : \A j \in i..Len(command) :
      IsSegment(command, i, j) =>
        LET w == RawWords(SubSeq(command, i, j)) IN
        (/\ Len(w) >= 2
         /\ IsDeletion(basename(w[1]))
         /\ \E k \in FirstPath(w, 2)..Len(w) :
              /\ resolve_path(w[k], cwd, HOME) # None
              /\ ~is_path_within_directory(resolve_path(w[k], cwd, HOME)[1], AbsCwd))
          => exit_code = 2

(* The path a, taken from dir, names or passes through a symlink that lies
   inside the working directory and points outside it. *)
ThroughOutsideLink(a, dir) ==
  LET comps == Components(join(dir, a)) IN
  \E n \in 1..Len(comps) :
    LET link == "/" \o JoinPath(SubSeq(comps, 1, n)) IN
    /\ link \in Links
    /\ Inside(link, AbsCwd)
    /\ ~Inside(realpath(LinkTarget(link)), AbsCwd)

(* C10: a deletion command given a path that names or passes through a
   symlink inside the working directory pointing outside it is blocked,
   whether or not the target exists. *)
C10_SymlinkBlocked ==
  DeletionLine =>
    LET t == Parsed.toks[1] IN
    (\E k \in FirstPath(t, 2)..Len(t) : IsPlainPath(t[k]) /\ ThroughOutsideLink(t[k], cwd))
      => exit_code = 2

(* C11: a simple command headed by find, directly or behind wrappers, in
   which the token right after -exec, -execdir, -ok or -okdir is a deletion
   command blocks the line with the reason that the paths are dynamic. *)
C11_FindExecBlocked ==
  (Analysed /\ Parsed.ok) =>
    \A n \in 1..Len(Parsed.toks) :
      LET t == BehindWrappers(Parsed.toks[n]) IN
      (/\ t # <<>>
       /\ basename(t[1]) = "find"
       /\ \E i \in 1..(Len(t) - 1) :
            t[i] \in {"-exec", "-execdir", "-ok", "-okdir"} /\ IsDeletion(basename(t[i + 1])))
        => /\ exit_code = 2
           /\ HasSubstring(stderr, "with rm - paths are dynamic")

(* C12 as stated: every block of an analysed line comes with a diagnostic
   naming the rule, the working directory and the original command text. *)
C12_DiagnosticComplete ==
  (Analysed /\ exit_code = 2) =>
    /\ startswith(stderr, "BLOCKED: ")
    /\ HasSubstring(stderr, "\n  Working directory: " \o AbsCwd)
    /\ HasSubstring(stderr, "\n  Command: " \o command)

(* C12 amended: every block comes with a diagnostic naming the rule.  The
   unresolvable diagnostic lists every reason and the outside diagnostic a
   resolved path outside the working directory, and both name the resolved
   working directory and the command text; the malformed diagnostic names
   the command text and no working directory; the input-error diagnostics
   name the rule and, for the working directory, the value given. *)
C12_DiagnosticPerKind ==
  (pc = "exited" /\ exit_code = 2) =>
    \/ ~json_ok /\ startswith(stderr, "ERROR: Invalid JSON input")
    \/ /\ json_ok
       /\ ~Analysed
       /\ stderr = "ERROR: Invalid or missing working directory: " \o cwd
    \/ /\ Analysed
       /\ ~Parsed.ok
       /\ stderr = "BLOCKED: Malformed command (unclosed quotes or syntax error)\n  Command: " \o command
    \/ /\ Analysed
       /\ Parsed.ok
       /\ Analyse(Parsed.toks, cwd, HOME).reasons # <<>>
       /\ startswith(stderr, "BLOCKED: Command contains rm with unresolvable paths (safety block)\n  Reasons:")
       /\ \A i \in 1..Len(Analyse(Parsed.toks, cwd, HOME).reasons) :
            HasSubstring(stderr, "\n  - " \o Analyse(Parsed.toks, cwd, HOME).reasons[i])
       /\ HasSubstring(stderr, "\n  Command: " \o command)
       /\ HasSubstring(stderr, "\n  Working directory: " \o AbsCwd)
    \/ /\ Analysed
       /\ Parsed.ok
       /\ Analyse(Parsed.toks, cwd, HOME).reasons = <<>>
       /\ startswith(stderr, "BLOCKED: rm targets path outside working directory\n  Target: ")
       /\ \E i \in 1..Len(Analyse(Parsed.toks, cwd, HOME).paths) :
            LET path == Analyse(Parsed.toks, cwd, HOME).paths[i] IN
            /\ ~is_path_within_directory(path, AbsCwd)
            /\ HasSubstring(stderr, ("\n  Target: " \o path) \o "\n")
       /\ HasSubstring(stderr, "\n  Working directory: " \o AbsCwd)
       /\ HasSubstring(stderr, "\n  Command: " \o command)

(* C12 witness: a malformed line that names rm was blocked with the
   malformed diagnostic, which names no working directory. *)
C12_Witness ==
  /\ Analysed
  /\ ~Parsed.ok
  /\ exit_code = 2
  /\ startswith(stderr, "BLOCKED: Malformed command")
  /\ ~HasSubstring(stderr, "Working directory")

(* A word written without quoting, escaping or operator characters. *)
IsBareWord(w) ==
  \A i \in 1..Len(w) :
    CharAt(w, i) \notin {";", "|", "&", "<", ">", "(", ")", "'", "\"", "\\", "#", "\n", "\t", "\r", "$", Backquote}

(* A line whose words are bare, wholly enclosed in single quotes, or one
   backslash-escaped character: no unquoted operator occurs in it, so the
   shell reads it as one simple command. *)
QuotedOnlyLine(s) ==
  \A i \in WordStarts(s) :
    LET w == SubSeq(s, i, WordEnd(s, i)) IN
    \/ IsBareWord(w)
    \/ /\ Len(w) >= 2
       /\ CharAt(w, 1) = "'"
       /\ CharAt(w, Len(w)) = "'"
       /\ ~Contains(SubSeq(w, 2, Len(w) - 1), "'")
    \/ Len(w) = 2 /\ CharAt(w, 1) = "\\"

(* C14: in a working directory other than the root, on a line whose only
   separator or redirection characters are quoted or escaped, every word
   after the deletion command is still its argument: a plain path among
   them that resolves outside the working directory blocks the line. *)
C14_QuotedSeparatorIsWord ==
  (Analysed /\ AbsCwd # "/" /\ QuotedOnlyLine(command)) =>
    LET w == RawWords(command) IN
    (/\ Len(w) >= 2
     /\ IsDeletion(basename(w[1]))
     /\ \E k \in FirstPath(w, 2)..Len(w) :
          /\ IsPlainPath(w[k])
          /\ resolve_path(w[k], cwd, HOME) # None
          /\ ~is_path_within_directory(resolve_path(w[k], cwd, HOME)[1], AbsCwd))
      => exit_code = 2

(* C15: for a Bash command line with a valid working directory the hook
   exits 2 exactly when check_command returns an error for that line. *)
C15_PrefilterNeutral ==
  Analysed => (exit_code = 2 <=> check_command(command, cwd, HOME, AbsCwd) # None)

(* C16: every invocation of the hook ends with exit status 0 or 2, whatever
   the input channel holds. *)
C16_ExitZeroOrTwo == pc = "exited" => exit_code \in {0, 2}

(* What the installer has to leave alone: the matcher entries that have
   hooks other than ours, with those hooks; the ask permissions other than
   ours; the other permission lists. *)
IsOtherHook(hook) == Get(hook, "command", "") # HOOK_COMMAND

OtherHooks(entry) == SelectSeq(Get(entry, "hooks", <<>>), IsOtherHook)

HasOtherHooks(entry) == OtherHooks(entry) # <<>>

PreToolUseOf(s) == Get(Get(s, "hooks", <<>>), "PreToolUse", <<>>)

AskOf(s) == Get(Get(s, "permissions", <<>>), "ask", <<>>)

KeptEntries(entries) == [i \in 1..Len(entries) |-> Put(entries[i], "hooks", OtherHooks(entries[i]))]

IsOtherPermission(perm) == ~In(perm, ASK_PERMISSIONS)

OtherLists(permissions) == [k \in DOMAIN permissions \ {"ask"} |-> permissions[k]]

Kept(s) ==
  [entries |-> KeptEntries(SelectSeq(PreToolUseOf(s), HasOtherHooks)),
   ask |-> SelectSeq(AskOf(s), IsOtherPermission),
   lists |-> OtherLists(Get(s, "permissions", <<>>))]

(* C13: over any sequence of install and uninstall runs, every hook other
   than the rm-guard hook command, every matcher entry that still has hooks
   and every permission other than the three rm-guard ask permissions that
   settings.json held initially is still there, unmodified and in place. *)
C13_NonDestructive == Kept(settings) = Kept(initial)

(* An uninstall has rewritten settings that held other hooks beside ours in
   the Bash matcher and other ask permissions beside ours. *)
C13_Witness ==
  /\ last_run = "uninstall"
  /\ saved
  /\ BashMatcherIndex(PreToolUseOf(initial)) # 0
  /\ HookIndex(Get(PreToolUseOf(initial)[BashMatcherIndex(PreToolUseOf(initial))], "hooks", <<>>)) # 0
  /\ HasOtherHooks(PreToolUseOf(initial)[BashMatcherIndex(PreToolUseOf(initial))])
  /\ Kept(initial).ask # <<>>
  /\ \E i \in 1..3 : In(ASK_PERMISSIONS[i], AskOf(initial))

(* How often the hook command occurs in PreToolUse, and perm in ask. *)
RECURSIVE Sum(_)
Sum(numbers) == IF numbers = <<>> THEN 0 ELSE Head(numbers) + Sum(Tail(numbers))

Occurrences(x, list) == Cardinality({i \in 1..Len(list) : list[i] = x})

HookCount(s) ==
  Sum([i \in 1..Len(PreToolUseOf(s)) |->
         Cardinality({k \in 1..Len(Get(PreToolUseOf(s)[i], "hooks", <<>>)) : ~IsOtherHook(PreToolUseOf(s)[i].hooks[k])})])

AtMostOnce(s) ==
  /\ HookCount(s) <= 1
  /\ \A i \in 1..3 : Occurrences(ASK_PERMISSIONS[i], AskOf(s)) <= 1

(* What holds after a run of the installer. *)
AfterRun ==
  /\ AtMostOnce(settings')
  /\ (last_run' = "install" => HookCount(settings') = 1)
  /\ (last_run' = "uninstall" => HookCount(settings') = 0)

(* C17: starting from settings without the rm-guard hook command, after any
   sequence of install and uninstall runs the hook command and each of the
   three ask permissions occur at most once; the hook command occurs once
   after an install and not at all after an uninstall; a second consecutive
   install changes nothing and does not rewrite settings.json. *)
C17_InstallIdempotent ==
  [][HookCount(initial) = 0 =>
       /\ AfterRun
       /\ (last_run = "install" /\ last_run' = "install") => (settings' = settings /\ ~saved')]_vars

(* C17 as it holds: the settings at the start hold no rm-guard ask
   permission twice either, and the second consecutive install is given the
   same answer about the ask permissions as the first. *)
C17_InstallIdempotentSameAnswer ==
  [][HookCount(initial) = 0 /\ AtMostOnce(initial) =>
       /\ AfterRun
       /\ (last_run = "install" /\ last_run' = "install" /\ add_perms' = add_perms) =>
            (settings' = settings /\ ~saved')]_vars

(* A second consecutive install, with permissions, left alone the settings
   that the first one had written; an uninstall had run before them. *)
C17_Witness ==
  /\ HookCount(initial) = 0
  /\ AtMostOnce(initial)
  /\ last_run = "install"
  /\ add_perms
  /\ ~saved
  /\ HookCount(settings) = 1
  /\ settings # initial
  /\ \A i \in 1..3 : Occurrences(ASK_PERMISSIONS[i], AskOf(settings)) = 1

====
